---- MODULE Spec2Model ----
(***************************************************************************)
(* Logo Generator: upload, PDF/AI artboard selection, canvas compositing   *)
(* and PNG export, as a state machine over the page's global state and the *)
(* asynchronous work (file reads, image decodes, PDF.js promises) that is  *)
(* in flight.  Every action is one run-to-completion chunk of JavaScript:  *)
(* an event handler, or the part of an async function between two awaits.  *)
(***************************************************************************)
EXTENDS Integers, Sequences, FiniteSets, Bags, TLC

\* ---------------------------------------------------------------- bounds
MaxUploads == 2      \* accepted uploads in one run
MaxPages == 2        \* largest page count a document reports
MaxPickRenders == 1  \* page renders started by picks that may be in flight
MaxConcurrentPicks == 2 \* the same, where picks are studied alone
MaxDim == 8          \* largest image width and height tried on the geometry

\* ------------------------------------------------------------ file names
\* A file name is a sequence of tokens: "." is the dot character, every
\* other token is a non-empty run of characters without a dot or a slash.
FileNames ==
    { <<"logo", ".", "png">>,
      <<"brochure", ".", "AI">>,
      <<"note", ".", "txt">> }

\* the file names the extension check is tried on
ClassifyNames ==
    FileNames \cup
    { <<"photo", ".", "JPG">>,
      <<"scan", ".", "Jpeg">>,
      <<"doc", ".", "pdf">>,
      <<"archive", ".", "tar", ".", "pdf">>,
      <<"logo", ".", "png", ".", "txt">>,
      <<".", "png">>,
      <<"report", ".">>,
      <<"README">>,
      <<"png">>,
      <<"pdf">> }

EmptyName == << >>

ToLowerCase(w) ==
    CASE w = "JPG" -> "jpg"
      [] w = "JPEG" -> "jpeg"
      [] w = "Jpeg" -> "jpeg"
      [] w = "PNG" -> "png"
      [] w = "PDF" -> "pdf"
      [] w = "AI" -> "ai"
      [] w = "TXT" -> "txt"
      [] OTHER -> w

\* index of the last "." of the name, 0 when there is none
LastDot(name) ==
    LET dots == { i \in 1..Len(name) : name[i] = "." }
    IN  IF dots = {} THEN 0 ELSE CHOOSE i \in dots : \A j \in dots : j <= i

\* file.name.split('.').pop().toLowerCase()
Extension(name) ==
    IF Len(name) = 0 \/ LastDot(name) = Len(name)
    THEN ""
    ELSE ToLowerCase(name[Len(name)])

validExtensions == {"jpg", "jpeg", "png", "pdf", "ai"}

IsDocumentExtension(ext) == ext = "pdf" \/ ext = "ai"

\* file.name.replace(/\.[^/.]+$/, '')
BaseName(name) ==
    IF LastDot(name) > 0 /\ LastDot(name) = Len(name) - 1
    THEN SubSeq(name, 1, Len(name) - 2)
    ELSE name

\* ------------------------------------------------------------ arithmetic
\* JavaScript numbers, modelled as exact fractions n/d in lowest terms, d > 0
RECURSIVE GCD(_, _)
GCD(a, b) == IF b = 0 THEN a ELSE GCD(b, a % b)

Abs(a) == IF a < 0 THEN -a ELSE a

Rat(n, d) ==
    LET g == GCD(Abs(n), Abs(d))
        sign == IF d < 0 THEN -1 ELSE 1
    IN  [n |-> sign * (n \div g), d |-> sign * (d \div g)]

Whole(k) == [n |-> k, d |-> 1]
RMul(a, b) == Rat(a.n * b.n, a.d * b.d)
RDiv(a, b) == Rat(a.n * b.d, a.d * b.n)
RSub(a, b) == Rat(a.n * b.d - b.n * a.d, a.d * b.d)
RLess(a, b) == a.n * b.d < b.n * a.d
RLeq(a, b) == a.n * b.d <= b.n * a.d
RMin(a, b) == IF RLess(b, a) THEN b ELSE a

\* the integer a canvas dimension becomes when a number is assigned to it
Trunc(a) == a.n \div a.d

\* -------------------------------------------------------------- geometry
CANVAS_WIDTH == 786
CANVAS_HEIGHT == 280

\* no padding at all
PaddingNone == Whole(1)

\* 0.9
PaddingFactor == Rat(9, 10)

\* a comparison turned round: the image is scaled to cover the canvas
ImageIsNarrower(imgAspect, canvasAspect) == RLess(imgAspect, canvasAspect)

\* imgAspect > canvasAspect
ImageIsWider(imgAspect, canvasAspect) == RLess(canvasAspect, imgAspect)

\* drawWidth, drawHeight, x and y of drawImageToCanvas for an image of the
\* given width and height
ContainFit(width, height) ==
    LET imgAspect == Rat(width, height)
        canvasAspect == Rat(CANVAS_WIDTH, CANVAS_HEIGHT)
        wider == ImageIsWider(imgAspect, canvasAspect)
        drawWidth ==
            IF wider THEN RMul(Whole(CANVAS_WIDTH), PaddingFactor)
            ELSE RMul(RMul(Whole(CANVAS_HEIGHT), PaddingFactor), imgAspect)
        drawHeight ==
            IF wider
            THEN RDiv(RMul(Whole(CANVAS_WIDTH), PaddingFactor), imgAspect)
            ELSE RMul(Whole(CANVAS_HEIGHT), PaddingFactor)
    IN  [drawWidth |-> drawWidth, drawHeight |-> drawHeight,
         x |-> RDiv(RSub(Whole(CANVAS_WIDTH), drawWidth), Whole(2)),
         y |-> RDiv(RSub(Whole(CANVAS_HEIGHT), drawHeight), Whole(2))]

\* width and height of the temporary canvas renderPDFPage rasterizes a page
\* of the given viewport into
PageRaster(viewport) ==
    LET scaleX == Rat(CANVAS_WIDTH, viewport.width)
        scaleY == Rat(CANVAS_HEIGHT, viewport.height)
        scale == RMul(RMin(scaleX, scaleY), PaddingFactor)
    IN  [width |-> Trunc(RMul(Whole(viewport.width), scale)),
         height |-> Trunc(RMul(Whole(viewport.height), scale))]

\* the natural size of the uploaded raster, and the viewports of the pages
\* of the uploaded documents
NaturalSize == [width |-> 400, height |-> 100]

Viewport(page) ==
    IF page = 1 THEN [width |-> 612, height |-> 792]
                ELSE [width |-> 1200, height |-> 300]

\* ------------------------------------------------------------- constants
NoPage == 0          \* selectedArtboard = null
NoDoc == [id |-> 0, name |-> EmptyName, numPages |-> 0]    \* currentPDF = null
\* the canvas after fillRect with the background colour
Blank ==
    [id |-> 0, name |-> EmptyName, page |-> 0, under |-> "white",
     width |-> 0, height |-> 0,
     drawWidth |-> Whole(0), drawHeight |-> Whole(0), x |-> Whole(0), y |-> Whole(0)]
NoDownload == [name |-> EmptyName, suffix |-> "", content |-> Blank]

\* messages of the errors PDF.js (or the file read) rejects with
ErrorMessages == {"Invalid PDF structure.", "Password required", ""}

\* error.message && error.message.includes('Invalid PDF')
MentionsInvalidPDF(msg) == msg # "" /\ msg \in {"Invalid PDF structure."}

VARIABLES
    currentFileName,   \* base name of the last accepted upload, or EmptyName
    hasImage,          \* an image has been drawn since the last clear
    currentPDF,        \* the live document handle, or NoDoc
    selectedArtboard,  \* page number of the last pick, or NoPage
    artboardGrid,      \* the thumbnail slots shown in the selector
    sectionVisible,    \* artboardSection has class 'visible'
    loading,           \* uploadArea has class 'loading'
    saveBtnDisabled,   \* saveBtn.disabled
    canvas,            \* what previewCanvas shows
    tasks,             \* bag of asynchronous operations in flight
    nextId,            \* identity of the next accepted upload
    alerted,           \* the alert raised by the last step, or "none"
    downloaded         \* the file offered by the last step, or NoDownload

vars ==
    << currentFileName, hasImage, currentPDF, selectedArtboard, artboardGrid,
       sectionVisible, loading, saveBtnDisabled, canvas, tasks, nextId,
       alerted, downloaded >>

\* ----------------------------------------------------------------- tasks
Task(kind, pc, file, numPages, page, origin) ==
    [kind |-> kind, pc |-> pc, file |-> file, numPages |-> numPages,
     page |-> page, origin |-> origin]

Spawn(b, t) == b (+) SetToBag({t})
Finish(b, t) == b (-) SetToBag({t})
Advance(b, t, pc) == Spawn(Finish(b, t), [t EXCEPT !.pc = pc])

InFlight == BagToSet(tasks)

\* the image a finished decode or page render hands to drawImageToCanvas
ImageOf(t, size) ==
    [id |-> t.file.id, name |-> t.file.name, page |-> t.page,
     width |-> size.width, height |-> size.height]

PickRendersInFlight ==
    LET picks == { t \in InFlight : t.kind = "render" /\ t.origin = "pick" }
        RECURSIVE Sum(_)
        Sum(S) == IF S = {} THEN 0
                  ELSE LET t == CHOOSE x \in S : TRUE
                       IN  CopiesIn(t, tasks) + Sum(S \ {t})
    IN  Sum(picks)

\* ------------------------------------------------------------------ grid
Slot(id, i) ==
    [gen |-> id, page |-> i, selected |-> FALSE, thumb |-> "pending",
     shownId |-> 0, shownPage |-> 0]

NewGrid(id, n) == [i \in 1..n |-> Slot(id, i)]

SelectedSlots == { i \in 1..Len(artboardGrid) : artboardGrid[i].selected }

\* ------------------------------------------------------------------ Init
Init ==
    /\ currentFileName = EmptyName
    /\ hasImage = FALSE
    /\ currentPDF = NoDoc
    /\ selectedArtboard = NoPage
    /\ artboardGrid = << >>
    /\ sectionVisible = FALSE
    /\ loading = FALSE
    /\ saveBtnDisabled \in BOOLEAN
    /\ canvas = Blank
    /\ tasks = EmptyBag
    /\ nextId = 1
    /\ alerted = "none"
    /\ downloaded = NoDownload

\* ------------------------------------------------- state-changing helpers
Quiet == alerted' = "none" /\ downloaded' = NoDownload
Alert(kind) == alerted' = kind /\ downloaded' = NoDownload

initCanvas == canvas' = Blank

\* a hideArtboardSection that leaves the thumbnails in the grid
hideArtboardSectionKeepsGrid ==
    /\ sectionVisible' = FALSE
    /\ artboardGrid' = artboardGrid
    /\ currentPDF' = NoDoc
    /\ selectedArtboard' = NoPage

hideArtboardSection ==
    /\ sectionVisible' = FALSE
    /\ artboardGrid' = << >>
    /\ currentPDF' = NoDoc
    /\ selectedArtboard' = NoPage

\* a clearCanvas that forgets the artboard selector (as in the variant of
\* the application without artboards)
clearCanvasKeepsSelector ==
    /\ initCanvas
    /\ currentFileName' = EmptyName
    /\ hasImage' = FALSE
    /\ saveBtnDisabled' = TRUE
    /\ UNCHANGED << sectionVisible, artboardGrid, currentPDF, selectedArtboard >>

clearCanvas ==
    /\ initCanvas
    /\ currentFileName' = EmptyName
    /\ hasImage' = FALSE
    /\ saveBtnDisabled' = TRUE
    /\ hideArtboardSection

\* what the canvas shows once img is drawn over a canvas whose former
\* content is covered (under = "white") or not (under = "stale")
Painted(img, under) ==
    LET fit == ContainFit(img.width, img.height)
    IN  [id |-> img.id, name |-> img.name, page |-> img.page, under |-> under,
         width |-> img.width, height |-> img.height,
         drawWidth |-> fit.drawWidth, drawHeight |-> fit.drawHeight,
         x |-> fit.x, y |-> fit.y]

\* a drawImageToCanvas that does not repaint the background first
drawImageToCanvasNoFill(img) ==
    /\ canvas' = Painted(img, IF canvas = Blank THEN "white" ELSE "stale")
    /\ hasImage' = TRUE
    /\ saveBtnDisabled' = FALSE

drawImageToCanvas(img) ==
    /\ canvas' = Painted(img, "white")
    /\ hasImage' = TRUE
    /\ saveBtnDisabled' = FALSE

\* ---------------------------------------------------------------- upload
\* the pipeline handleFile starts for an accepted file
FirstTask(name, id) ==
    IF IsDocumentExtension(Extension(name))
    THEN Task("pdf", "buffer", [id |-> id, name |-> name], 0, 0, "load")
    ELSE Task("image", "read", [id |-> id, name |-> name], 0, 0, "load")

\* handleFile past the extension check
acceptFile(name) ==
    /\ currentFileName' = BaseName(name)
    /\ loading' = TRUE
    /\ hideArtboardSection
    /\ tasks' = Spawn(tasks, FirstTask(name, nextId))
    /\ nextId' = nextId + 1
    /\ Quiet
    /\ UNCHANGED << hasImage, saveBtnDisabled, canvas >>

\* a handleFile that lost its extension check
handleFileUnchecked(name) == acceptFile(name)

handleFile(name) ==
    IF Extension(name) \notin validExtensions
    THEN /\ Alert("UnsupportedFormat")
         /\ UNCHANGED << currentFileName, hasImage, currentPDF,
                         selectedArtboard, artboardGrid, sectionVisible,
                         loading, saveBtnDisabled, canvas, tasks, nextId >>
    ELSE acceptFile(name)

\* ----------------------------------------------------------- raster path
readerOnload(t) ==
    /\ t.kind = "image" /\ t.pc = "read"
    /\ tasks' = Advance(tasks, t, "decode")
    /\ Quiet
    /\ UNCHANGED << currentFileName, hasImage, currentPDF, selectedArtboard,
                    artboardGrid, sectionVisible, loading, saveBtnDisabled,
                    canvas, nextId >>

readerOnerror(t) ==
    /\ t.kind = "image" /\ t.pc = "read"
    /\ tasks' = Finish(tasks, t)
    /\ Alert("FileRead")
    /\ loading' = FALSE
    /\ UNCHANGED << currentFileName, hasImage, currentPDF, selectedArtboard,
                    artboardGrid, sectionVisible, saveBtnDisabled, canvas,
                    nextId >>

\* the decoded image has the natural size of the file's picture
imgOnload(t, size) ==
    /\ t.kind = "image" /\ t.pc = "decode"
    /\ tasks' = Finish(tasks, t)
    /\ drawImageToCanvas(ImageOf(t, size))
    /\ loading' = FALSE
    /\ Quiet
    /\ UNCHANGED << currentFileName, currentPDF, selectedArtboard,
                    artboardGrid, sectionVisible, nextId >>

imgOnerror(t) ==
    /\ t.kind = "image" /\ t.pc = "decode"
    /\ tasks' = Finish(tasks, t)
    /\ Alert("RasterDecode")
    /\ loading' = FALSE
    /\ clearCanvas
    /\ UNCHANGED nextId

\* --------------------------------------------------------- document path
\* a catch block that reports every failure with the generic message
processPDFCatchGeneric(msg) ==
    /\ Alert("DocumentProcessing")
    /\ loading' = FALSE
    /\ clearCanvas

\* the catch block of processPDFFile
processPDFCatch(msg) ==
    /\ Alert(IF MentionsInvalidPDF(msg) THEN "IncompatibleExportMode"
                                        ELSE "DocumentProcessing")
    /\ loading' = FALSE
    /\ clearCanvas

pdfBufferRead(t) ==
    /\ t.kind = "pdf" /\ t.pc = "buffer"
    /\ tasks' = Advance(tasks, t, "open")
    /\ Quiet
    /\ UNCHANGED << currentFileName, hasImage, currentPDF, selectedArtboard,
                    artboardGrid, sectionVisible, loading, saveBtnDisabled,
                    canvas, nextId >>

\* file.arrayBuffer() rejects: a read error, whose message is not PDF.js's
pdfBufferFailed(t) ==
    /\ t.kind = "pdf" /\ t.pc = "buffer"
    /\ tasks' = Finish(tasks, t)
    /\ processPDFCatch("")
    /\ UNCHANGED nextId

pdfOpenFailed(t, msg) ==
    /\ t.kind = "pdf" /\ t.pc = "open"
    /\ tasks' = Finish(tasks, t)
    /\ processPDFCatch(msg)
    /\ UNCHANGED nextId

ThumbTasks(pdf) ==
    SetToBag({ Task("thumb", "getPage", [id |-> pdf.id, name |-> pdf.name],
                    pdf.numPages, i, "load") : i \in 1..pdf.numPages })

\* a selector shown for single-page documents as well
NeedsSelectorAlways(n) == n >= 1

\* numPages > 1
NeedsSelector(n) == n > 1

showArtboardSelector(pdf) ==
    /\ artboardGrid' = NewGrid(pdf.id, pdf.numPages)
    /\ selectedArtboard' = NoPage
    /\ sectionVisible' = TRUE

\* getDocument resolves with a document of n pages; the handler runs on to
\* the await of showArtboardSelector (whose body has no await, so the
\* continuation that removes 'loading' follows in the same turn) or to the
\* first await inside renderPDFPage
pdfOpened(t, n) ==
    /\ t.kind = "pdf" /\ t.pc = "open"
    /\ LET pdf == [id |-> t.file.id, name |-> t.file.name, numPages |-> n]
       IN  /\ currentPDF' = pdf
           /\ IF NeedsSelector(n)
              THEN /\ showArtboardSelector(pdf)
                   /\ tasks' = Finish(tasks, t) (+) ThumbTasks(pdf)
                   /\ loading' = FALSE
              ELSE /\ tasks' = Spawn(Finish(tasks, t),
                                     Task("render", "getPage", t.file, n, 1,
                                          "load"))
                   /\ UNCHANGED << artboardGrid, selectedArtboard,
                                   sectionVisible, loading >>
    /\ Quiet
    /\ UNCHANGED << currentFileName, hasImage, saveBtnDisabled, canvas,
                    nextId >>

\* ----------------------------------------------------------- page render
\* pdf.getPage(pageNum) resolves only for a page the document has
PageExists(t) == t.page \in 1..t.numPages

renderGotPage(t) ==
    /\ t.kind = "render" /\ t.pc = "getPage"
    /\ PageExists(t)
    /\ tasks' = Advance(tasks, t, "render")
    /\ Quiet
    /\ UNCHANGED << currentFileName, hasImage, currentPDF, selectedArtboard,
                    artboardGrid, sectionVisible, loading, saveBtnDisabled,
                    canvas, nextId >>

\* page.render resolved: the data URL is handed to a new Image and
\* renderPDFPage returns; processPDFFile, when it is the caller, goes on to
\* remove 'loading'
renderRendered(t) ==
    /\ t.kind = "render" /\ t.pc = "render"
    /\ tasks' = Advance(tasks, t, "imgload")
    /\ loading' = IF t.origin = "load" THEN FALSE ELSE loading
    /\ Quiet
    /\ UNCHANGED << currentFileName, hasImage, currentPDF, selectedArtboard,
                    artboardGrid, sectionVisible, saveBtnDisabled, canvas,
                    nextId >>

\* the catch block of renderPDFPage: getPage or page.render rejected
renderFailed(t) ==
    /\ t.kind = "render" /\ t.pc \in {"getPage", "render"}
    /\ tasks' = Finish(tasks, t)
    /\ Alert("PageRender")
    /\ loading' = IF t.origin = "load" THEN FALSE ELSE loading
    /\ UNCHANGED << currentFileName, hasImage, currentPDF, selectedArtboard,
                    artboardGrid, sectionVisible, saveBtnDisabled, canvas,
                    nextId >>

renderImgOnload(t) ==
    /\ t.kind = "render" /\ t.pc = "imgload"
    /\ tasks' = Finish(tasks, t)
    /\ drawImageToCanvas(ImageOf(t, PageRaster(Viewport(t.page))))
    /\ Quiet
    /\ UNCHANGED << currentFileName, currentPDF, selectedArtboard,
                    artboardGrid, sectionVisible, loading, nextId >>

\* ------------------------------------------------------------ thumbnails
\* a task that reaches whatever grid is on display
AttachedToAnyGrid(t) == t.page \in 1..Len(artboardGrid)

\* the container a thumbnail task writes to is still a slot of the grid on
\* display only while that grid is the one built together with the task
Attached(t) ==
    /\ t.page \in 1..Len(artboardGrid)
    /\ artboardGrid[t.page].gen = t.file.id

\* a write that reaches every slot of the grid, not only the task's own
WriteSlotWholeGrid(t, state, id, page) ==
    IF Attached(t)
    THEN [i \in 1..Len(artboardGrid) |->
             [artboardGrid[i] EXCEPT !.thumb = state, !.shownId = id,
                                     !.shownPage = page]]
    ELSE artboardGrid

WriteSlot(t, state, id, page) ==
    IF Attached(t)
    THEN [artboardGrid EXCEPT ![t.page].thumb = state,
                              ![t.page].shownId = id,
                              ![t.page].shownPage = page]
    ELSE artboardGrid

thumbGotPage(t) ==
    /\ t.kind = "thumb" /\ t.pc = "getPage"
    /\ PageExists(t)
    /\ tasks' = Advance(tasks, t, "render")
    /\ Quiet
    /\ UNCHANGED << currentFileName, hasImage, currentPDF, selectedArtboard,
                    artboardGrid, sectionVisible, loading, saveBtnDisabled,
                    canvas, nextId >>

thumbRendered(t) ==
    /\ t.kind = "thumb" /\ t.pc = "render"
    /\ tasks' = Finish(tasks, t)
    /\ artboardGrid' = WriteSlot(t, "img", t.file.id, t.page)
    /\ Quiet
    /\ UNCHANGED << currentFileName, hasImage, currentPDF, selectedArtboard,
                    sectionVisible, loading, saveBtnDisabled, canvas, nextId >>

thumbFailed(t) ==
    /\ t.kind = "thumb" /\ t.pc \in {"getPage", "render"}
    /\ tasks' = Finish(tasks, t)
    /\ artboardGrid' = WriteSlot(t, "failed", 0, 0)
    /\ Quiet
    /\ UNCHANGED << currentFileName, hasImage, currentPDF, selectedArtboard,
                    sectionVisible, loading, saveBtnDisabled, canvas, nextId >>

\* ------------------------------------------------------------------ pick
\* artboardGrid.querySelector('.selected'): the first marked slot, 0 if none
PreviousSelected ==
    IF SelectedSlots = {} THEN 0
    ELSE CHOOSE i \in SelectedSlots : \A j \in SelectedSlots : i <= j

\* a pick that leaves the previous marker in place
UnmarkedNever(grid, i) == grid

Unmarked(grid, i) ==
    IF i = 0 THEN grid ELSE [grid EXCEPT ![i].selected = FALSE]

\* the click handler of slot i: selectArtboard(thumbnailContainer, i)
selectArtboard(i) ==
    /\ i \in 1..Len(artboardGrid)
    /\ artboardGrid' =
           [Unmarked(artboardGrid, PreviousSelected) EXCEPT ![i].selected = TRUE]
    /\ selectedArtboard' = artboardGrid[i].page
    /\ tasks' = IF currentPDF # NoDoc
                THEN Spawn(tasks,
                           Task("render", "getPage",
                                [id |-> currentPDF.id, name |-> currentPDF.name],
                                currentPDF.numPages, artboardGrid[i].page,
                                "pick"))
                ELSE tasks
    /\ Quiet
    /\ UNCHANGED << currentFileName, hasImage, currentPDF, sectionVisible,
                    loading, saveBtnDisabled, canvas, nextId >>

\* ---------------------------------------------------------- clear / save
clearClick ==
    /\ clearCanvas
    /\ Quiet
    /\ UNCHANGED << loading, tasks, nextId >>

\* a downloadImage without the hasImage check
downloadImageUnchecked ==
    /\ ~saveBtnDisabled
    /\ alerted' = "none"
    /\ downloaded' = [name |-> currentFileName, suffix |-> "_logo.png",
                      content |-> canvas]
    /\ UNCHANGED << currentFileName, hasImage, currentPDF, selectedArtboard,
                    artboardGrid, sectionVisible, loading, saveBtnDisabled,
                    canvas, tasks, nextId >>

\* saveBtn delivers clicks only while it is not disabled
downloadImage ==
    /\ ~saveBtnDisabled
    /\ IF ~hasImage
       THEN Alert("NoImage")
       ELSE /\ alerted' = "none"
            /\ downloaded' = [name |-> currentFileName, suffix |-> "_logo.png",
                              content |-> canvas]
    /\ UNCHANGED << currentFileName, hasImage, currentPDF, selectedArtboard,
                    artboardGrid, sectionVisible, loading, saveBtnDisabled,
                    canvas, tasks, nextId >>

\* ------------------------------------------------------------------ Next
\* the environment: at most MaxUploads accepted uploads in a run, at most
\* MaxPickRenders renders started by picks in flight at a time
UploadAllowed(name) ==
    Extension(name) \in validExtensions => nextId <= MaxUploads

PickAllowed == PickRendersInFlight < MaxPickRenders

Next ==
    \/ \E name \in FileNames : UploadAllowed(name) /\ handleFile(name)
    \/ \E t \in InFlight : readerOnload(t)
    \/ \E t \in InFlight : readerOnerror(t)
    \/ \E t \in InFlight : imgOnload(t, NaturalSize)
    \/ \E t \in InFlight : imgOnerror(t)
    \/ \E t \in InFlight : pdfBufferRead(t)
    \/ \E t \in InFlight : pdfBufferFailed(t)
    \/ \E t \in InFlight, n \in 1..MaxPages : pdfOpened(t, n)
    \/ \E t \in InFlight, msg \in ErrorMessages : pdfOpenFailed(t, msg)
    \/ \E t \in InFlight : renderGotPage(t)
    \/ \E t \in InFlight : renderRendered(t)
    \/ \E t \in InFlight : renderFailed(t)
    \/ \E t \in InFlight : renderImgOnload(t)
    \/ \E t \in InFlight : thumbGotPage(t)
    \/ \E t \in InFlight : thumbRendered(t)
    \/ \E t \in InFlight : thumbFailed(t)
    \/ \E i \in 1..MaxPages : PickAllowed /\ selectArtboard(i)
    \/ clearClick
    \/ downloadImage

Spec == Init /\ [][Next]_vars

\* the extension check alone: uploads of every name of ClassifyNames
ClassifyNext ==
    \E name \in ClassifyNames : UploadAllowed(name) /\ handleFile(name)

ClassifySpec == Init /\ [][ClassifyNext]_vars

\* the geometry alone: uploads of one raster whose picture has any of the
\* sizes GeoWidths x GeoHeights
GeoWidths == (1..MaxDim) \cup {400}
GeoHeights == (1..MaxDim) \cup {100}

GeoNext ==
    \/ UploadAllowed(<<"logo", ".", "png">>) /\ handleFile(<<"logo", ".", "png">>)
    \/ \E t \in InFlight : readerOnload(t)
    \/ \E t \in InFlight, w \in GeoWidths, h \in GeoHeights :
          imgOnload(t, [width |-> w, height |-> h])

GeoSpec == Init /\ [][GeoNext]_vars

\* picks alone: one multi-page document is uploaded and opens, nothing fails,
\* and up to MaxConcurrentPicks renders started by picks are in flight at once
ConcurrentPickAllowed == PickRendersInFlight < MaxConcurrentPicks

PickNext ==
    \/ nextId = 1 /\ handleFile(<<"brochure", ".", "AI">>)
    \/ \E t \in InFlight : pdfBufferRead(t)
    \/ \E t \in InFlight : pdfOpened(t, MaxPages)
    \/ \E t \in InFlight : thumbGotPage(t)
    \/ \E t \in InFlight : thumbRendered(t)
    \/ \E t \in InFlight : renderGotPage(t)
    \/ \E t \in InFlight : renderRendered(t)
    \/ \E t \in InFlight : renderImgOnload(t)
    \/ \E i \in 1..MaxPages : ConcurrentPickAllowed /\ selectArtboard(i)

PickSpec == Init /\ [][PickNext]_vars

\* ============================================================ properties
\* vocabulary of the selection state machine, read off the page state
Idle ==
    /\ currentPDF = NoDoc
    /\ selectedArtboard = NoPage
    /\ artboardGrid = << >>
    /\ currentFileName = EmptyName

CanvasBlank == canvas = Blank /\ ~hasImage

\* the selector on display was built for the live document
GridOfLiveDocument ==
    /\ Len(artboardGrid) > 0
    /\ \A i \in 1..Len(artboardGrid) : artboardGrid[i].gen = currentPDF.id

AwaitingSelection ==
    /\ currentPDF # NoDoc
    /\ currentPDF.numPages > 1
    /\ GridOfLiveDocument
    /\ selectedArtboard = NoPage

\* a step in which a document of n pages becomes the live handle
Loaded(n) ==
    /\ currentPDF' # currentPDF
    /\ currentPDF' # NoDoc
    /\ currentPDF'.numPages = n

\* a render of the given page of the given document has just been started
RenderStarted(b, pdf, page) ==
    \E t \in BagToSet(b) :
        /\ t.kind = "render" /\ t.pc = "getPage"
        /\ t.file.id = pdf.id /\ t.page = page

ThumbnailStarted(b, pdf, page) ==
    \E t \in BagToSet(b) :
        /\ t.kind = "thumb" /\ t.pc = "getPage"
        /\ t.file.id = pdf.id /\ t.page = page

FailureAlerts ==
    {"FileRead", "RasterDecode", "IncompatibleExportMode",
     "DocumentProcessing", "PageRender"}

\* C1: a file is offered for download only by a step taken while hasImage
\* is true, and an export attempted while hasImage is false raises the
\* 'no image available' alert and offers no file.
C1_ExportGated ==
    [][ /\ (downloaded' # NoDownload => hasImage)
        /\ (downloadImage /\ ~hasImage =>
                alerted' = "NoImage" /\ downloaded' = NoDownload) ]_vars

C1_Witness == alerted = "NoImage" /\ ~hasImage /\ downloaded = NoDownload

\* C2: a pick of a page k that the live document has sets the selected
\* index to k, starts the render of page k of the live document, and leaves
\* the marker on slot k alone; in every state the marked slots are exactly
\* the selected index (none when there is no selection).
C2_PickSelects ==
    /\ [](SelectedSlots =
            IF selectedArtboard = NoPage THEN {} ELSE {selectedArtboard})
    /\ [][ \A k \in 1..MaxPages :
             (selectArtboard(k) /\ currentPDF # NoDoc
                                /\ k \in 1..currentPDF.numPages)
             => /\ selectedArtboard' = k
                /\ SelectedSlots' = {k}
                /\ RenderStarted(tasks', currentPDF, k) ]_vars

C2_Witness ==
    /\ currentPDF.numPages > 1
    /\ GridOfLiveDocument
    /\ selectedArtboard = 2
    /\ SelectedSlots = {2}
    /\ canvas.id = currentPDF.id /\ canvas.page = 2

\* C3 as stated: the load of a single-page document sets the selected index
\* to 1 and starts the render of page 1.
C3_Original ==
    [][ Loaded(1) => /\ selectedArtboard' = 1
                     /\ RenderStarted(tasks', currentPDF', 1) ]_vars

\* C3 amended: the load of a single-page document starts the render of
\* page 1 at once and builds no selector: grid, visibility of the selector
\* and selected index stay as they were, and no grid on display was ever
\* built for a single-page document.
C3_SinglePageLoad ==
    /\ [](\A i \in 1..Len(artboardGrid) :
             artboardGrid[i].gen = currentPDF.id => currentPDF.numPages > 1)
    /\ [][ Loaded(1) =>
             /\ RenderStarted(tasks', currentPDF', 1)
             /\ UNCHANGED << selectedArtboard, artboardGrid, sectionVisible >>
       ]_vars

C3_Witness ==
    /\ currentPDF.numPages = 1
    /\ selectedArtboard = NoPage
    /\ artboardGrid = << >>
    /\ canvas.id = currentPDF.id /\ canvas.page = 1

\* C4: the load of a document with more than one page leaves no selection,
\* starts a thumbnail for every page and does not touch the canvas, and
\* while that document awaits its first pick the canvas and hasImage do not
\* change.
C4_Original ==
    /\ [][ \A n \in 2..MaxPages :
             Loaded(n) =>
               /\ AwaitingSelection'
               /\ \A i \in 1..n : ThumbnailStarted(tasks', currentPDF', i)
               /\ UNCHANGED << canvas, hasImage >> ]_vars
    /\ [][ (AwaitingSelection /\ AwaitingSelection'
                              /\ currentPDF' = currentPDF)
           => UNCHANGED << canvas, hasImage >> ]_vars

\* C5: the state right after a click on clear is Idle with a blank canvas:
\* no document handle, no selection, empty grid, white canvas, hasImage
\* false, empty file name.
C5_ClearGoesIdle == [][ clearClick => (Idle' /\ CanvasBlank') ]_vars

C5_Witness ==
    /\ Idle /\ CanvasBlank /\ alerted = "none"
    /\ \E t \in InFlight : t.kind = "thumb"

\* C6: every step that reports a failure of the raster path or of the
\* document path leaves the canvas blank, hasImage false and the upload
\* state Idle.
C6_Original ==
    [][ alerted' \in FailureAlerts => (Idle' /\ CanvasBlank') ]_vars

\* C7: a failed open is reported as IncompatibleExportMode exactly when the
\* error message is PDF.js's 'Invalid PDF' one, as the generic
\* DocumentProcessing otherwise, and either way the canvas ends blank and
\* the upload state Idle.
C7_IncompatibleMode ==
    [][ \A t \in InFlight, msg \in ErrorMessages :
          pdfOpenFailed(t, msg) =>
            /\ alerted' = IF msg = "Invalid PDF structure."
                          THEN "IncompatibleExportMode"
                          ELSE "DocumentProcessing"
            /\ Idle' /\ CanvasBlank' ]_vars

C7_Witness ==
    /\ alerted = "IncompatibleExportMode"
    /\ Idle /\ CanvasBlank
    /\ nextId > 2

\* C8: a pick of a page the live document does not have changes neither the
\* selected index, the markers, the canvas nor hasImage.
C8_Original ==
    [][ \A k \in 1..MaxPages :
          (selectArtboard(k) /\ currentPDF # NoDoc
                             /\ k \notin 1..currentPDF.numPages)
          => UNCHANGED << selectedArtboard, artboardGrid, canvas, hasImage >>
      ]_vars

C10_UnsupportedRejected ==
    [][ \A name \in FileNames :
          (handleFile(name)
             /\ Extension(name) \notin {"jpg", "jpeg", "png", "pdf", "ai"})
          => /\ alerted' = "UnsupportedFormat"
             /\ UNCHANGED << canvas, hasImage, currentFileName, currentPDF,
                             selectedArtboard, artboardGrid, sectionVisible,
                             tasks, nextId >> ]_vars

C10_Witness ==
    /\ alerted = "UnsupportedFormat"
    /\ hasImage /\ canvas # Blank
    /\ currentPDF # NoDoc

\* the class the final extension of a name stands for: the text after the
\* last dot, if the name has a dot with text after it
HasExtension(name) == LastDot(name) > 0 /\ LastDot(name) < Len(name)

ClassOfExtension(name) ==
    IF ~HasExtension(name) THEN "Unsupported"
    ELSE LET ext == ToLowerCase(name[Len(name)])
         IN  IF ext \in {"jpg", "jpeg", "png"} THEN "Raster"
             ELSE IF ext \in {"pdf", "ai"} THEN "Document"
             ELSE "Unsupported"

\* the pipeline started for the upload accepted in this step, if any
StartedKind(b, id) ==
    IF \E t \in BagToSet(b) : t.file.id = id /\ t.kind = "image" THEN "Raster"
    ELSE IF \E t \in BagToSet(b) : t.file.id = id /\ t.kind = "pdf"
         THEN "Document"
    ELSE "Unsupported"

\* C11: every upload is routed by the final extension of its name alone,
\* case-insensitively: raster decode for jpg, jpeg, png, document open for
\* pdf, ai, rejection for anything else, a name without extension included.
C11_Original ==
    [][ \A name \in ClassifyNames :
          handleFile(name) =>
            /\ StartedKind(tasks', nextId) = ClassOfExtension(name)
            /\ (alerted' = "UnsupportedFormat"
                  <=> ClassOfExtension(name) = "Unsupported") ]_vars

\* a thumbnail task for slot i of the grid on display is in flight
ThumbnailPending(i) ==
    \E t \in InFlight :
        t.kind = "thumb" /\ t.file.id = artboardGrid[i].gen /\ t.page = i

\* C12: the load of an n-page document builds exactly the slots 1..n, each
\* with its own thumbnail task; a failing task marks at most its own slot as
\* failed and changes no other slot, no other task, and neither the canvas,
\* hasImage, the document handle nor the selection; every slot still
\* waiting for its thumbnail has its task in flight.
C12_ThumbnailsIsolated ==
    /\ [](\A i \in 1..Len(artboardGrid) :
             /\ artboardGrid[i].page = i
             /\ artboardGrid[i].thumb = "pending" => ThumbnailPending(i))
    /\ [][ \A n \in 2..MaxPages :
             Loaded(n) =>
               /\ Len(artboardGrid') = n
               /\ \A i \in 1..n :
                    /\ artboardGrid'[i].gen = currentPDF'.id
                    /\ artboardGrid'[i].thumb = "pending" ]_vars
    /\ [][ \A t \in InFlight :
             thumbFailed(t) =>
               /\ Len(artboardGrid') = Len(artboardGrid)
               /\ \A j \in 1..Len(artboardGrid) :
                    IF j = t.page /\ artboardGrid[j].gen = t.file.id
                    THEN artboardGrid'[j].thumb = "failed"
                    ELSE artboardGrid'[j] = artboardGrid[j]
               /\ tasks' = Finish(tasks, t)
               /\ UNCHANGED << canvas, hasImage, currentPDF,
                               selectedArtboard >> ]_vars

C12_Witness ==
    /\ GridOfLiveDocument
    /\ artboardGrid[1].thumb = "failed"
    /\ artboardGrid[2].thumb = "img"
    /\ artboardGrid[2].shownPage = 2

\* the step is the img.onload of t, drawing a picture of the size the canvas
\* then holds
Drawn(t) ==
    /\ canvas'.width \in GeoWidths /\ canvas'.height \in GeoHeights
    /\ imgOnload(t, [width |-> canvas'.width, height |-> canvas'.height])

\* the drawn rectangle lies inside the canvas
InsideCanvas(c) ==
    /\ RLeq(c.drawWidth, Whole(CANVAS_WIDTH))
    /\ RLeq(c.drawHeight, Whole(CANVAS_HEIGHT))
    /\ RLeq(Whole(0), c.x)
    /\ RLeq(Whole(0), c.y)
    /\ RLeq(Rat(c.x.n * c.drawWidth.d + c.drawWidth.n * c.x.d,
                c.x.d * c.drawWidth.d), Whole(CANVAS_WIDTH))
    /\ RLeq(Rat(c.y.n * c.drawHeight.d + c.drawHeight.n * c.y.d,
                c.y.d * c.drawHeight.d), Whole(CANVAS_HEIGHT))

\* C13: for every picture of width w and height h the rectangle it is drawn
\* into lies inside the 786 x 280 canvas (sizes at most the canvas's,
\* offsets not negative, offset plus size at most the canvas's) and has the
\* picture's aspect ratio: drawWidth * h = drawHeight * w.
C13_FitsAndKeepsAspect ==
    [][ \A t \in InFlight :
          Drawn(t) =>
            LET w == canvas'.width
                h == canvas'.height
            IN  /\ InsideCanvas(canvas')
                /\ RMul(canvas'.drawWidth, Whole(h))
                     = RMul(canvas'.drawHeight, Whole(w)) ]_vars

C13_Witness ==
    /\ canvas # Blank
    /\ canvas.drawHeight = Whole(252)
    /\ RLess(canvas.drawWidth, Whole(252))
    /\ RLess(Whole(267), canvas.x)

\* C14: a picture relatively wider than the canvas (w/h > 786/280) is drawn
\* 0.9 * 786 wide and drawWidth * h / w high, any other picture 0.9 * 280
\* high and drawHeight * w / h wide, centred both ways; a 400 x 100 picture
\* is drawn 707.4 x 176.85 at (39.3, 51.575).
C14_ConstrainedAxis ==
    [][ \A t \in InFlight :
          Drawn(t) =>
           LET w == canvas'.width
               h == canvas'.height
           IN
            /\ IF w * 280 > 786 * h
               THEN /\ canvas'.drawWidth = Rat(7074, 10)
                    /\ canvas'.drawHeight = Rat(7074 * h, 10 * w)
               ELSE /\ canvas'.drawHeight = Whole(252)
                    /\ canvas'.drawWidth = Rat(252 * w, h)
            /\ canvas'.x = RDiv(RSub(Whole(786), canvas'.drawWidth), Whole(2))
            /\ canvas'.y = RDiv(RSub(Whole(280), canvas'.drawHeight), Whole(2))
            /\ (w = 400 /\ h = 100) =>
                  /\ canvas'.drawWidth = Rat(7074, 10)
                  /\ canvas'.drawHeight = Rat(17685, 100)
                  /\ canvas'.x = Rat(393, 10)
                  /\ canvas'.y = Rat(51575, 1000) ]_vars

C14_Witness ==
    /\ canvas.width = 400 /\ canvas.height = 100
    /\ canvas.drawWidth = Rat(7074, 10)
    /\ canvas.drawHeight = Rat(17685, 100)
    /\ canvas.x = Rat(393, 10)
    /\ canvas.y = Rat(51575, 1000)

\* a step that composites an image onto the canvas, and the image
Composites(t) == renderImgOnload(t) \/ imgOnload(t, NaturalSize)

Composited(t) ==
    IF t.kind = "render" THEN ImageOf(t, PageRaster(Viewport(t.page)))
    ELSE ImageOf(t, NaturalSize)

\* the canvas holds exactly a composite of the image on white
ShowsOnly(c, img) ==
    /\ c.id = img.id /\ c.page = img.page /\ c.name = img.name
    /\ c.under = "white"

\* C15: whatever the canvas held, a composite leaves exactly the image on
\* white with hasImage true, and compositing the same image onto the result
\* of its own composite changes neither the canvas nor hasImage.
C15_CompositeIdempotent ==
    [][ \A t \in InFlight :
          Composites(t) =>
            /\ ShowsOnly(canvas', Composited(t))
            /\ hasImage'
            /\ (ShowsOnly(canvas, Composited(t)) /\ hasImage) =>
                  (canvas' = canvas /\ hasImage' = hasImage) ]_vars

\* the canvas shows a page of the live document and a second render of the
\* same page is about to be composited
C15_Witness ==
    \E t \in InFlight :
        /\ t.kind = "render" /\ t.pc = "imgload"
        /\ ShowsOnly(canvas, Composited(t))
        /\ hasImage

\* C16: in every reachable state the selected index is none or a page
\* number of the document held as the live handle.
C16_Original ==
    \/ selectedArtboard = NoPage
    \/ /\ currentPDF # NoDoc
       /\ selectedArtboard \in 1..currentPDF.numPages

RendersInFlight == { t \in InFlight : t.kind = "render" }

\* C17: once no page render is in flight any more, the canvas shows the
\* page of the live document that the selected index names, whatever order
\* the renders started by the picks completed in.
C17_Original ==
    (RendersInFlight = {} /\ selectedArtboard # NoPage /\ currentPDF # NoDoc)
        => (canvas.id = currentPDF.id /\ canvas.page = selectedArtboard)

\* the upload accepted last
LatestUpload == nextId - 1

\* C18: once a second file has been uploaded and no asynchronous work is
\* left, the live document handle, the thumbnail grid and the canvas content
\* drawn since that upload belong to the upload accepted last, never to the
\* one it replaced.
C18_Original ==
    (nextId > 2 /\ InFlight = {}) =>
        /\ currentPDF # NoDoc => currentPDF.id = LatestUpload
        /\ \A i \in 1..Len(artboardGrid) : artboardGrid[i].gen = LatestUpload
        /\ canvas # Blank => canvas.id = LatestUpload

\* no accepted upload since the last clear (or since the page was opened):
\* only handleFile gives currentFileName a value and only clearCanvas
\* empties it
ClearedSince == currentFileName = EmptyName

\* C19: from a clear until the next accepted upload the machine stays idle:
\* the canvas blank, hasImage false, the document handle discarded.
C19_Original == ClearedSince => (Idle /\ CanvasBlank)

\* the grid on display was not built for the task's document
Superseded(t) ==
    \A i \in 1..Len(artboardGrid) : artboardGrid[i].gen # t.file.id

\* C20: a thumbnail shown in slot i is a rendering of page i of the document
\* the grid was built for, whatever order the thumbnail tasks complete in,
\* and a thumbnail task of a superseded document changes nothing in a grid
\* built for another document, the live document's in particular.
C20_ThumbnailsOfTheirGrid ==
    /\ [](\A i \in 1..Len(artboardGrid) :
             artboardGrid[i].thumb = "img" =>
                /\ artboardGrid[i].shownId = artboardGrid[i].gen
                /\ artboardGrid[i].shownPage = i)
    /\ [][ \A t \in InFlight :
             (thumbRendered(t) \/ thumbFailed(t)) =>
                /\ Superseded(t) => artboardGrid' = artboardGrid
                /\ t.file.id # currentPDF.id =>
                      /\ Len(artboardGrid') = Len(artboardGrid)
                      /\ \A i \in 1..Len(artboardGrid) :
                            artboardGrid[i].gen = currentPDF.id =>
                               artboardGrid'[i] = artboardGrid[i] ]_vars

\* the second document's grid shows a thumbnail and still waits for another
\* while the first document's task for that slot is about to complete
C20_Witness ==
    /\ Len(artboardGrid) = 2
    /\ artboardGrid[1].gen = 2 /\ artboardGrid[1].thumb = "img"
    /\ artboardGrid[2].thumb = "pending"
    /\ \E t \in InFlight :
          /\ t.kind = "thumb" /\ t.pc = "render"
          /\ t.file.id = 1 /\ t.page = 2

\* C21: a file offered for download is named <base>_logo.png, where <base>
\* is the name, less its final extension, of the upload whose picture is on
\* the canvas, and is not empty.
C21_Original ==
    downloaded # NoDownload =>
        /\ downloaded.suffix = "_logo.png"
        /\ downloaded.name = BaseName(downloaded.content.name)
        /\ downloaded.name # EmptyName

\* C22: whenever the thumbnail grid is not empty, the live document handle
\* is the document the grid was built for.
C22_Original ==
    Len(artboardGrid) > 0 =>
        /\ currentPDF # NoDoc
        /\ \A i \in 1..Len(artboardGrid) : artboardGrid[i].gen = currentPDF.id

====
